---- MODULE Spec2Model ----
(***************************************************************************)
(* A model of codewalk.go: a pool of Poller goroutines receives *Resource  *)
(* values on the unbuffered channel pending, polls them, reports a State   *)
(* to the StateMonitor goroutine and hands the Resource to main on the     *)
(* unbuffered channel complete; main starts one Sleep goroutine per        *)
(* completed Resource, which sleeps and sends the Resource on pending.     *)
(*                                                                         *)
(* Time is counted in seconds and advances in steps of Quantum, the        *)
(* greatest common divisor of the three durations of the program.          *)
(*                                                                         *)
(* A send and its receive on an unbuffered channel are one step. The body  *)
(* of main's loop, go r.Sleep(pending), never blocks and is part of the    *)
(* step in which main receives r from complete. Goroutines that run the    *)
(* same code are kept in bags: Pollers and Sleep goroutines have no name.  *)
(*                                                                         *)
(* Each action has a Core, the step of the program, to which the actions   *)
(* of Spec add what an observer of the Resources records, and those of     *)
(* LogSpec what a reader of the log records. ProgSpec is the program       *)
(* alone; FairSpec adds the scheduling it relies on and MonitorSpec the    *)
(* fairness of the monitor's select only.                                  *)
(***************************************************************************)
EXTENDS Integers, Sequences, FiniteSets, Bags, TLC

\* ------------------------------------------------------------ constants
numPollers == 2
pollInterval == 60
statusInterval == 10
errTimeout == 10
urls == <<"http://www.google.com", "http://golang.org", "http://blog.golang.org">>

\* The largest errCount the model lets a Resource reach: at MaxErr the next
\* poll succeeds. The program itself has no ceiling.
MaxErr == 1

\* ------------------------------------------------------------- helpers
RECURSIVE GCD(_, _)
GCD(a, b) == IF b = 0 THEN a ELSE GCD(b, a % b)

Quantum == GCD(pollInterval, GCD(statusInterval, errTimeout))

Min(a, b) == IF a <= b THEN a ELSE b

\* What the observer counts is kept between -1 and 2: a difference that
\* should be 0 or 1 is seen to leave that range.
Count(n) == IF n < -1 THEN -1 ELSE Min(n, 2)

\* A *Resource is identified by the index of its url in urls: the seeding
\* goroutine allocates exactly one Resource per element of urls.
Resources == 1..Len(urls)
NoRes == 0

\* What http.Head can produce: a response status, or an error whose text
\* becomes the status.
OkStatus == "200 OK"
ErrStatus == "connection refused"

VARIABLES
  \* the program
  seedIdx,    \* the seeding goroutine: index in urls of the next url to send
  errCount,   \* Resource.errCount of each Resource
  pollers,    \* the bag of Poller goroutines: [pc, r, s]
  delays,     \* the bag of live Sleep goroutines: [r, dur, elapsed, pc]
  urlStatus,  \* StateMonitor's map url -> status
  tickLeft,   \* seconds until the ticker's next tick
  tickerC,    \* number of ticks buffered in ticker.C (capacity 1)
  \* what an observer of the Resources records
  run,        \* per Resource: length of the trailing run of failed polls
  polled,     \* per Resource: r.Poll() has returned at least once
  lastRecv,   \* per url: the status of the last State the monitor received
  prevDelay,  \* per Resource held by a Poller: the sleep that preceded it
  probes,     \* per Resource: calls of Poll since it was last received
  unreported, \* per Resource: calls of Poll less States received for its url
  unforwarded,\* per Resource: States received for its url less sends on complete
  \* what a reader of the log records
  lastLog,    \* the lines of the last logState since the last update
  snaps       \* calls of logState since the last update, counted up to 2

prog == <<seedIdx, errCount, pollers, delays, urlStatus, tickLeft, tickerC>>
obs == <<run, polled, lastRecv, prevDelay, probes, unreported, unforwarded>>
log == <<lastLog, snaps>>
vars == <<prog, obs, log>>

NoLog == <<"none">>
NoStatus == "none"

\* A Poller waiting on in (for r := range in).
Idle == [pc |-> "recv", r |-> NoRes, s |-> ""]

\* ---------------------------------------------------------------- Init
Init ==
  /\ seedIdx = 1
  /\ errCount = [r \in Resources |-> 0]
  /\ pollers = [w \in {Idle} |-> numPollers]
  /\ delays = EmptyBag
  /\ urlStatus = << >>
  /\ tickLeft = statusInterval
  /\ tickerC = 0
  /\ lastLog = NoLog
  /\ snaps = 0
  /\ run = [r \in Resources |-> 0]
  /\ polled = [r \in Resources |-> FALSE]
  /\ lastRecv = [i \in Resources |-> NoStatus]
  /\ prevDelay = [r \in Resources |-> 0]
  /\ probes = [r \in Resources |-> 0]
  /\ unreported = [r \in Resources |-> 0]
  /\ unforwarded = [r \in Resources |-> 0]

\* ------------------------------------------------------------- Poller
\* Poller goroutine w becomes w2.
PollerStep(w, w2) == (pollers (-) SetToBag({w})) (+) SetToBag({w2})

\* A goroutine started for every Resource sent on pending, whatever the
\* Pollers do.
PollerRecvSpawns(r) ==
  pollers' = pollers (+) SetToBag({[pc |-> "poll", r |-> r, s |-> ""]})

\* for r := range in: an idle Poller receives Resource r in a rendezvous.
PollerRecv(r) ==
  /\ BagIn(Idle, pollers)
  /\ pollers' = PollerStep(Idle, [pc |-> "poll", r |-> r, s |-> ""])

\* The seeding goroutine: pending <- &Resource{url: url}, for each url in
\* order. The send completes when a Poller receives.
SeedSendCore ==
  /\ seedIdx <= Len(urls)
  /\ PollerRecv(seedIdx)
  /\ errCount' = [errCount EXCEPT ![seedIdx] = 0]
  /\ seedIdx' = seedIdx + 1
  /\ UNCHANGED <<delays, urlStatus, tickLeft, tickerC>>

SeedSend ==
  /\ SeedSendCore
  /\ probes' = [probes EXCEPT ![seedIdx] = 0]
  /\ prevDelay' = [prevDelay EXCEPT ![seedIdx] = 0]
  /\ UNCHANGED <<run, polled, lastRecv, unreported, unforwarded, log>>

\* Poll forgetting r.errCount = 0.
PollResultNoReset(r, ok) ==
  IF ok THEN [errCount |-> errCount[r], status |-> OkStatus]
        ELSE [errCount |-> errCount[r] + 1, status |-> ErrStatus]

\* Poll forgetting r.errCount++.
PollResultNoCount(r, ok) ==
  IF ok THEN [errCount |-> 0, status |-> OkStatus]
        ELSE [errCount |-> errCount[r], status |-> ErrStatus]

\* Resource.Poll: http.Head fails (errCount++, the error's text) or succeeds
\* (errCount = 0, the response's status).
PollResult(r, ok) ==
  IF ok THEN [errCount |-> 0, status |-> OkStatus]
        ELSE [errCount |-> errCount[r] + 1, status |-> ErrStatus]

\* Poller returning when the poll fails, instead of reporting it.
PollFatal(w, ok) ==
  /\ BagIn(w, pollers)
  /\ w.pc = "poll"
  /\ ~ok => errCount[w.r] < MaxErr
  /\ LET res == PollResult(w.r, ok)
     IN /\ errCount' = [errCount EXCEPT ![w.r] = res.errCount]
        /\ pollers' = PollerStep(w, [w EXCEPT !.pc = IF ok THEN "status" ELSE "stopped",
                                              !.s = res.status])
  /\ UNCHANGED <<seedIdx, delays, urlStatus, tickLeft, tickerC>>

\* Poller writing the status of its poll into the monitor's map itself.
PollWritesMap(w, ok) ==
  /\ BagIn(w, pollers)
  /\ w.pc = "poll"
  /\ ~ok => errCount[w.r] < MaxErr
  /\ LET res == PollResult(w.r, ok)
     IN /\ errCount' = [errCount EXCEPT ![w.r] = res.errCount]
        /\ pollers' = PollerStep(w, [w EXCEPT !.pc = "status", !.s = res.status])
        /\ urlStatus' = [u \in (DOMAIN urlStatus) \cup {urls[w.r]} |->
                           IF u = urls[w.r] THEN res.status ELSE urlStatus[u]]
  /\ UNCHANGED <<seedIdx, delays, tickLeft, tickerC>>

\* Poller sending r on out straight after the poll, before its State.
PollForwardsFirst(w, ok) ==
  /\ BagIn(w, pollers)
  /\ w.pc = "poll"
  /\ ~ok => errCount[w.r] < MaxErr
  /\ LET res == PollResult(w.r, ok)
     IN /\ errCount' = [errCount EXCEPT ![w.r] = res.errCount]
        /\ pollers' = PollerStep(w, [w EXCEPT !.pc = "out", !.s = res.status])
  /\ UNCHANGED <<seedIdx, delays, urlStatus, tickLeft, tickerC>>

\* s := r.Poll() in Poller w, http.Head succeeding or not.
PollCore(w, ok) ==
  /\ BagIn(w, pollers)
  /\ w.pc = "poll"
  /\ ~ok => errCount[w.r] < MaxErr
  /\ LET res == PollResult(w.r, ok)
     IN /\ errCount' = [errCount EXCEPT ![w.r] = res.errCount]
        /\ pollers' = PollerStep(w, [w EXCEPT !.pc = "status", !.s = res.status])
  /\ UNCHANGED <<seedIdx, delays, urlStatus, tickLeft, tickerC>>

Poll(w, ok) ==
  /\ PollCore(w, ok)
  /\ run' = [run EXCEPT ![w.r] = IF ok THEN 0 ELSE @ + 1]
  /\ polled' = [polled EXCEPT ![w.r] = TRUE]
  /\ probes' = [probes EXCEPT ![w.r] = @ + 1]
  /\ unreported' = [unreported EXCEPT ![w.r] = Count(@ + 1)]
  /\ UNCHANGED <<lastRecv, prevDelay, unforwarded, log>>

\* ------------------------------------------------------- StateMonitor
MapSet(m, k, v) == [x \in (DOMAIN m) \cup {k} |-> IF x = k THEN v ELSE m[x]]

UrlIndex(u) == CHOOSE i \in Resources : urls[i] = u

\* The monitor keeping the first status of a url.
MonitorUpdateFirstWins(m, s) ==
  IF s.url \in DOMAIN m THEN m ELSE MapSet(m, s.url, s.status)

\* The monitor writing urlStatus[s.status] = s.url.
MonitorUpdateSwapped(m, s) == MapSet(m, s.status, s.url)

\* case s := <-updates: urlStatus[s.url] = s.status
MonitorUpdate(m, s) == MapSet(m, s.url, s.status)

\* The value Poller w sends: State{r.url, s}.
StateOf(w) == [url |-> urls[w.r], status |-> w.s]

\* The monitor receiving from updates only when ticker.C is empty.
StatusSendAfterTicks(w) ==
  /\ tickerC = 0
  /\ BagIn(w, pollers)
  /\ w.pc = "status"
  /\ urlStatus' = MonitorUpdate(urlStatus, StateOf(w))
  /\ pollers' = PollerStep(w, [w EXCEPT !.pc = "out"])
  /\ UNCHANGED <<seedIdx, errCount, delays, tickLeft, tickerC>>

\* Poller sending its State and staying at the send.
StatusSendTwice(w) ==
  /\ BagIn(w, pollers)
  /\ w.pc = "status"
  /\ urlStatus' = MonitorUpdate(urlStatus, StateOf(w))
  /\ pollers' = pollers
  /\ UNCHANGED <<seedIdx, errCount, delays, tickLeft, tickerC>>

\* status <- State{r.url, s}, received by the monitor's select.
StatusSendCore(w) ==
  /\ BagIn(w, pollers)
  /\ w.pc = "status"
  /\ urlStatus' = MonitorUpdate(urlStatus, StateOf(w))
  /\ pollers' = PollerStep(w, [w EXCEPT !.pc = "out"])
  /\ UNCHANGED <<seedIdx, errCount, delays, tickLeft, tickerC>>

StatusSendObs(w) ==
  /\ StatusSendCore(w)
  /\ lastRecv' = [lastRecv EXCEPT ![UrlIndex(StateOf(w).url)] = StateOf(w).status]
  /\ unreported' = [unreported EXCEPT ![UrlIndex(StateOf(w).url)] = Count(@ - 1)]
  /\ unforwarded' = [unforwarded EXCEPT ![UrlIndex(StateOf(w).url)] = Count(@ + 1)]
  /\ UNCHANGED <<run, polled, prevDelay, probes>>

StatusSend(w) == StatusSendObs(w) /\ UNCHANGED log

\* The update as the reader of the log sees it: what was logged is out of date.
StatusSendLogged(w) ==
  /\ StatusSendObs(w)
  /\ lastLog' = NoLog
  /\ snaps' = 0

\* The sequences that list every element of set S once, in any order.
RECURSIVE Orders(_)
Orders(S) ==
  IF S = {} THEN {<< >>}
  ELSE UNION {{<<x>> \o t : t \in Orders(S \ {x})} : x \in S}

\* logState leaving out the first entry range yields.
LogLinesSkipFirst(m) ==
  {[i \in 1..(Len(o) - 1) |-> <<o[i + 1], m[o[i + 1]]>>] : o \in Orders(DOMAIN m)}

\* logState: one line per entry of the map, in the order range yields them,
\* which Go leaves unspecified.
LogLines(m) ==
  {[i \in 1..Len(o) |-> <<o[i], m[o[i]]>>] : o \in Orders(DOMAIN m)}

\* case <-ticker.C: logState(urlStatus)
LogStateCore ==
  /\ tickerC > 0
  /\ tickerC' = tickerC - 1
  /\ UNCHANGED <<seedIdx, errCount, pollers, delays, urlStatus, tickLeft>>

LogState == LogStateCore /\ UNCHANGED <<obs, log>>

\* logState as the reader of the log sees it.
LogStateLogged ==
  /\ LogStateCore
  /\ lastLog' \in LogLines(urlStatus)
  /\ snaps' = Min(snaps + 1, 2)
  /\ UNCHANGED obs

\* ------------------------------------------------------ main and Sleep
\* Sleep without the back-off term.
SleepDurationFlat(r) == pollInterval

\* time.Sleep's argument in Resource.Sleep.
SleepDuration(r) == pollInterval + errTimeout * errCount[r]

\* The goroutine main starts for Resource r: go r.Sleep(pending).
NewSleep(r) ==
  [r |-> r, dur |-> SleepDuration(r), elapsed |-> 0, pc |-> "sleep"]

\* Poller sending r on out and polling it again.
CompleteKeepsR(w) ==
  /\ BagIn(w, pollers)
  /\ w.pc = "out"
  /\ delays' = delays (+) SetToBag({NewSleep(w.r)})
  /\ pollers' = PollerStep(w, [w EXCEPT !.pc = "poll", !.s = ""])
  /\ UNCHANGED <<seedIdx, errCount, urlStatus, tickLeft, tickerC>>

\* main starting no Sleep for a Resource whose poll failed.
CompleteDropsFailed(w) ==
  /\ BagIn(w, pollers)
  /\ w.pc = "out"
  /\ delays' = IF errCount[w.r] > 0 THEN delays
               ELSE delays (+) SetToBag({NewSleep(w.r)})
  /\ pollers' = PollerStep(w, Idle)
  /\ UNCHANGED <<seedIdx, errCount, urlStatus, tickLeft, tickerC>>

\* Poller returning after its first Resource instead of ranging over in.
CompletePollerReturns(w) ==
  /\ BagIn(w, pollers)
  /\ w.pc = "out"
  /\ delays' = delays (+) SetToBag({NewSleep(w.r)})
  /\ pollers' = PollerStep(w, [Idle EXCEPT !.pc = "returned"])
  /\ UNCHANGED <<seedIdx, errCount, urlStatus, tickLeft, tickerC>>

\* main starting two Sleep goroutines for the Resource it receives.
CompleteStartsTwo(w) ==
  /\ BagIn(w, pollers)
  /\ w.pc = "out"
  /\ delays' = delays (+) SetToBag({NewSleep(w.r)}) (+) SetToBag({NewSleep(w.r)})
  /\ pollers' = PollerStep(w, Idle)
  /\ UNCHANGED <<seedIdx, errCount, urlStatus, tickLeft, tickerC>>

\* main calling r.Sleep(pending) itself: it receives from complete again
\* only once the Resource it sleeps for has been sent on pending.
CompleteAwaitsSleep(w) ==
  /\ delays = EmptyBag
  /\ BagIn(w, pollers)
  /\ w.pc = "out"
  /\ delays' = delays (+) SetToBag({NewSleep(w.r)})
  /\ pollers' = PollerStep(w, Idle)
  /\ UNCHANGED <<seedIdx, errCount, urlStatus, tickLeft, tickerC>>

\* main sending the Resources on pending itself, before its range over
\* complete.
CompleteAfterSeeding(w) ==
  /\ seedIdx > Len(urls)
  /\ BagIn(w, pollers)
  /\ w.pc = "out"
  /\ delays' = delays (+) SetToBag({NewSleep(w.r)})
  /\ pollers' = PollerStep(w, Idle)
  /\ UNCHANGED <<seedIdx, errCount, urlStatus, tickLeft, tickerC>>

\* out <- r received by main's range over complete, and the loop's body:
\* go r.Sleep(pending).
CompleteCore(w) ==
  /\ BagIn(w, pollers)
  /\ w.pc = "out"
  /\ delays' = delays (+) SetToBag({NewSleep(w.r)})
  /\ pollers' = PollerStep(w, Idle)
  /\ UNCHANGED <<seedIdx, errCount, urlStatus, tickLeft, tickerC>>

Complete(w) ==
  /\ CompleteCore(w)
  /\ prevDelay' = [prevDelay EXCEPT ![w.r] = 0]
  /\ unforwarded' = [unforwarded EXCEPT ![w.r] = Count(@ - 1)]
  /\ UNCHANGED <<run, polled, lastRecv, probes, unreported, log>>

\* time.Sleep returns: not before dur has passed.
WakeCore(d) ==
  /\ BagIn(d, delays)
  /\ d.pc = "sleep"
  /\ d.elapsed >= d.dur
  /\ delays' = (delays (-) SetToBag({d})) (+) SetToBag({[d EXCEPT !.pc = "send"]})
  /\ UNCHANGED <<seedIdx, errCount, pollers, urlStatus, tickLeft, tickerC>>

Wake(d) == WakeCore(d) /\ UNCHANGED <<obs, log>>

\* done <- r on a buffered pending: the send completes whether or not a
\* Poller is idle.
RequeueBuffered(d) ==
  /\ BagIn(d, delays)
  /\ d.pc = "send"
  /\ IF BagIn(Idle, pollers) THEN PollerRecv(d.r) ELSE pollers' = pollers
  /\ delays' = delays (-) SetToBag({d})
  /\ UNCHANGED <<seedIdx, errCount, urlStatus, tickLeft, tickerC>>

\* Sleep sending r on done without returning.
RequeueKeepsSleep(d) ==
  /\ BagIn(d, delays)
  /\ d.pc = "send"
  /\ PollerRecv(d.r)
  /\ delays' = delays
  /\ UNCHANGED <<seedIdx, errCount, urlStatus, tickLeft, tickerC>>

\* done <- r in Resource.Sleep, received by an idle Poller; the goroutine
\* ends.
RequeueCore(d) ==
  /\ BagIn(d, delays)
  /\ d.pc = "send"
  /\ PollerRecv(d.r)
  /\ delays' = delays (-) SetToBag({d})
  /\ UNCHANGED <<seedIdx, errCount, urlStatus, tickLeft, tickerC>>

Requeue(d) ==
  /\ RequeueCore(d)
  /\ probes' = [probes EXCEPT ![d.r] = 0]
  /\ prevDelay' = [prevDelay EXCEPT ![d.r] = d.dur]
  /\ UNCHANGED <<run, polled, lastRecv, unreported, unforwarded, log>>

\* ---------------------------------------------------------------- time
\* A Sleep goroutine Quantum seconds later: its timer runs up to dur.
Advance(d) == [d EXCEPT !.elapsed = Min(@ + Quantum, d.dur)]

\* Quantum seconds pass: every sleeping goroutine's timer advances, and the
\* ticker sends on ticker.C when its period ends (dropping the tick if the
\* buffer is full).
TickCore ==
  /\ delays' = BagOfAll(Advance, delays)
  /\ IF tickLeft <= Quantum
       THEN /\ tickLeft' = statusInterval
            /\ tickerC' = 1
       ELSE /\ tickLeft' = tickLeft - Quantum
            /\ tickerC' = tickerC
  /\ UNCHANGED <<seedIdx, errCount, pollers, urlStatus>>

Tick == TickCore /\ UNCHANGED <<obs, log>>

\* ---------------------------------------------------------------- Next
\* The program and the observer of its Resources.
Next ==
  \/ SeedSend
  \/ \E w \in BagToSet(pollers), ok \in BOOLEAN : Poll(w, ok)
  \/ \E w \in BagToSet(pollers) : StatusSend(w)
  \/ \E w \in BagToSet(pollers) : Complete(w)
  \/ \E d \in BagToSet(delays) : Wake(d)
  \/ \E d \in BagToSet(delays) : Requeue(d)
  \/ LogState
  \/ Tick

Spec == Init /\ [][Next]_vars

\* The program, the observer of its Resources and the reader of its log.
LogNext ==
  \/ SeedSend
  \/ \E w \in BagToSet(pollers), ok \in BOOLEAN : Poll(w, ok)
  \/ \E w \in BagToSet(pollers) : StatusSendLogged(w)
  \/ \E w \in BagToSet(pollers) : Complete(w)
  \/ \E d \in BagToSet(delays) : Wake(d)
  \/ \E d \in BagToSet(delays) : Requeue(d)
  \/ LogStateLogged
  \/ Tick

LogSpec == Init /\ [][LogNext]_vars

\* The program alone: nothing is recorded.
Unobserved == UNCHANGED <<obs, log>>

ProgNext ==
  \/ SeedSendCore /\ Unobserved
  \/ \E w \in BagToSet(pollers), ok \in BOOLEAN : PollCore(w, ok) /\ Unobserved
  \/ \E w \in BagToSet(pollers) : StatusSendCore(w) /\ Unobserved
  \/ \E w \in BagToSet(pollers) : CompleteCore(w) /\ Unobserved
  \/ \E d \in BagToSet(delays) : WakeCore(d) /\ Unobserved
  \/ \E d \in BagToSet(delays) : RequeueCore(d) /\ Unobserved
  \/ LogStateCore /\ Unobserved
  \/ TickCore /\ Unobserved

ProgSpec == Init /\ [][ProgNext]_vars

\* ------------------------------------------------------------- fairness
\* The steps of the program that concern Resource r.
PollOf(r) == \E w \in BagToSet(pollers), ok \in BOOLEAN : w.r = r /\ PollCore(w, ok)
StatusSendOf(r) == \E w \in BagToSet(pollers) : w.r = r /\ StatusSendCore(w)
CompleteOf(r) == \E w \in BagToSet(pollers) : w.r = r /\ CompleteCore(w)
WakeOf(r) == \E d \in BagToSet(delays) : d.r = r /\ WakeCore(d)
RequeueOf(r) == \E d \in BagToSet(delays) : d.r = r /\ RequeueCore(d)

\* The steps a goroutine holding r takes without waiting for a Poller:
\* http.Head returns, the monitor's select and main's range receive from a
\* sender that stays ready, a timer that has run out fires.
RunOf(r) == PollOf(r) \/ StatusSendOf(r) \/ CompleteOf(r) \/ WakeOf(r)

\* Time passes; a goroutine that can run does; and a goroutine blocked
\* sending on pending is served when Pollers become idle again and again
\* (the runtime queues blocked senders first in, first out).
Fairness ==
  /\ WF_vars(TickCore /\ Unobserved)
  /\ SF_vars(SeedSendCore /\ Unobserved)
  /\ \A r \in Resources :
       /\ WF_vars(RunOf(r) /\ Unobserved)
       /\ SF_vars(RequeueOf(r) /\ Unobserved)

FairSpec == ProgSpec /\ Fairness

\* The monitor's select chooses at random among its ready cases: a case
\* that stays ready, a tick buffered in ticker.C or a Poller blocked in its
\* send on status, is taken.
MonitorFairness ==
  /\ WF_vars(LogStateCore /\ Unobserved)
  /\ \A r \in Resources : WF_vars(StatusSendOf(r) /\ Unobserved)

MonitorSpec == ProgSpec /\ MonitorFairness

\* ----------------------------------------------------------- ownership
\* The goroutines of bag B whose r is Resource r, and their number.
Of(B, r) == {x \in BagToSet(B) : x.r = r}
Holding(B, r) == BagCardinality([x \in Of(B, r) |-> CopiesIn(x, B)])

\* The seeding goroutine holds the Resources it has not sent yet.
SeedHolds(r) == IF r >= seedIdx THEN 1 ELSE 0

\* How many goroutines hold Resource r.
Holders(r) == SeedHolds(r) + Holding(pollers, r) + Holding(delays, r)

\* Where Resource r is: with the seeding goroutine ("seed"), at a step of a
\* Poller ("poll", "status", "out") or of a Sleep goroutine ("sleep", "send").
Loc(r) ==
  IF SeedHolds(r) = 1 THEN "seed"
  ELSE LET W == Of(pollers, r)
       IN IF W # {} THEN (CHOOSE w \in W : TRUE).pc
          ELSE LET D == Of(delays, r)
               IN IF D # {} THEN (CHOOSE d \in D : TRUE).pc ELSE "lost"

DelayOf(r) == CHOOSE d \in BagToSet(delays) : d.r = r

\* r crosses pending in this step: from the seeding goroutine or from a Sleep
\* goroutine blocked in its send, to a Poller that was idle.
IntakeHandOff(r) ==
  /\ Loc(r) \in {"seed", "send"}
  /\ Loc(r)' = "poll"
  /\ CopiesIn(Idle, pollers') = CopiesIn(Idle, pollers) - 1

\* r crosses complete in this step: from a Poller to a new Sleep goroutine.
CompletionHandOff(r) ==
  /\ Loc(r) = "out"
  /\ Loc(r)' = "sleep"
  /\ CopiesIn(Idle, pollers') = CopiesIn(Idle, pollers) + 1

\* The kind of goroutine at a place.
OwnerAt(loc) ==
  CASE loc = "seed" -> "seeding"
    [] loc \in {"poll", "status", "out"} -> "poller"
    [] loc \in {"sleep", "send"} -> "sleep"
    [] OTHER -> "nobody"

Owner(r) == OwnerAt(Loc(r))

\* C1: every Resource is held by at most one goroutine; errCount changes
\* only in the poll of the Poller that holds the Resource; and the holder
\* changes only in a hand-off over pending or complete.
C1_SingleOwnership ==
  /\ [](\A r \in Resources : Holders(r) <= 1)
  /\ [][\A r \in Resources :
          /\ errCount'[r] # errCount[r] => Loc(r) = "poll" /\ Holders(r) = 1
          /\ Owner(r)' # Owner(r) => IntakeHandOff(r) \/ CompletionHandOff(r)]_vars

\* Each kind of holder has held a Resource: one sleeps, one is polled, one
\* is still with the seeding goroutine.
C1_Witness ==
  \E a, b, c \in Resources :
    /\ Loc(a) = "sleep" /\ errCount[a] > 0
    /\ Loc(b) = "status"
    /\ Loc(c) = "seed"

\* C2: every Resource is held exactly once (none lost, none duplicated);
\* a send on pending is taken by exactly one idle Poller; and a Resource is
\* polled exactly once each time it is received.
C2_NoLossNoDuplication ==
  /\ [](/\ BagCardinality(pollers) = numPollers
        /\ \A r \in Resources :
             /\ Holders(r) = 1
             /\ probes[r] = IF Loc(r) \in {"seed", "poll"} THEN 0 ELSE 1)
  /\ [][\A r \in Resources :
          Loc(r)' = "poll" /\ Loc(r) # "poll" => IntakeHandOff(r)]_vars

\* A Resource in its second cycle has been polled again while the two others
\* wait to be received.
C2_Witness ==
  \E a, b, c \in Resources :
    /\ Loc(a) = "out" /\ prevDelay[a] > 0
    /\ Loc(b) = "send"
    /\ Loc(c) = "send"

\* C3: a Sleep goroutine asks for pollInterval + errTimeout * errCount, with
\* the errCount the Poller left, and sends the Resource on pending only once
\* that much time has passed since main took it from complete.
C3_BackoffDelay ==
  \A d \in BagToSet(delays) :
    /\ d.dur = pollInterval + errTimeout * errCount[d.r]
    /\ d.elapsed <= d.dur
    /\ d.pc = "send" => d.elapsed >= pollInterval + errTimeout * errCount[d.r]

\* A Resource with one failure is re-sent after 70 s, one with none after 60 s.
C3_Witness ==
  \E d, e \in BagToSet(delays) :
    /\ d.pc = "send" /\ errCount[d.r] = 1 /\ d.elapsed = 70
    /\ e.pc = "send" /\ errCount[e.r] = 0 /\ e.elapsed = 60

\* C4: when main starts the Sleep that follows a failed poll, it is longer
\* than the sleep that preceded that poll; errCount stays positive until a
\* poll succeeds, and after one the sleep is pollInterval again.
C4_BackoffMonotonic ==
  [][\A r \in Resources :
       CompletionHandOff(r) =>
         /\ run[r] > 0 => errCount[r] > 0 /\ DelayOf(r)'.dur > prevDelay[r]
         /\ run[r] = 0 => errCount[r] = 0 /\ DelayOf(r)'.dur = pollInterval]_vars

\* A Resource sleeps 70 s after a failure while another, polled with success
\* after a 70 s sleep, is about to be handed to main with errCount 0.
C4_Witness ==
  /\ \E d \in BagToSet(delays) : d.dur = pollInterval + errTimeout /\ run[d.r] = 1
  /\ \E w \in BagToSet(pollers) :
       /\ w.pc = "out" /\ run[w.r] = 0 /\ errCount[w.r] = 0
       /\ prevDelay[w.r] = pollInterval + errTimeout

\* C5: errCount is never negative and equals the number of failed polls
\* since the last successful one (0 before the first poll).
C5_FailureCounter ==
  \A r \in Resources : errCount[r] >= 0 /\ errCount[r] = run[r]

C5_Witness ==
  \E a, b \in Resources :
    /\ run[a] = MaxErr /\ errCount[a] = MaxErr /\ Loc(a) = "sleep"
    /\ polled[b] /\ run[b] = 0 /\ errCount[b] = 0 /\ prevDelay[b] > pollInterval

\* ------------------------------------------------------------ snapshots
\* This step is the monitor's case <-ticker.C.
LogStep == tickerC' < tickerC

\* The set of lines of a snapshot.
Lines(l) == {l[j] : j \in 1..Len(l)}

\* Every url has been received by the monitor at least once.
AllReceived == \A i \in Resources : lastRecv[i] # NoStatus

\* Snapshot l has one line per configured url, with the status last received.
FullSnapshot(l) ==
  /\ Len(l) = Len(urls)
  /\ Lines(l) = {<<urls[i], lastRecv[i]>> : i \in Resources}

\* C6 as stated: once Poll has returned for every Resource, a snapshot has
\* one line per url.
C6_AfterEveryPoll ==
  [][(\A r \in Resources : polled[r]) /\ LogStep => FullSnapshot(lastLog')]_vars

\* C6, amended: once the monitor has received a State for every url, a
\* snapshot has exactly one line per url, with the status last received.
C6_Convergence ==
  [][AllReceived /\ LogStep => FullSnapshot(lastLog')]_vars

C6_Witness ==
  /\ AllReceived
  /\ snaps > 0
  /\ Len(lastLog) = Len(urls)
  /\ \E j \in 1..Len(lastLog) : lastLog[j][2] = ErrStatus

\* C7: the map has an entry for exactly the urls the monitor has received a
\* State for, each the status received last; and a snapshot lists exactly the
\* map's entries.
C7_LastWriteWins ==
  /\ DOMAIN urlStatus = {urls[i] : i \in {j \in Resources : lastRecv[j] # NoStatus}}
  /\ \A i \in Resources : lastRecv[i] # NoStatus => urlStatus[urls[i]] = lastRecv[i]
  /\ snaps > 0 =>
       /\ Len(lastLog) = Cardinality(DOMAIN urlStatus)
       /\ Lines(lastLog) = {<<u, urlStatus[u]>> : u \in DOMAIN urlStatus}

\* A second State of a url has overwritten the first (the poll before the
\* 60 s sleep had succeeded, this one failed), a third url has no entry yet,
\* and a snapshot was taken.
C7_Witness ==
  /\ snaps > 0
  /\ Cardinality(DOMAIN urlStatus) = 2
  /\ \E r \in Resources :
       /\ Loc(r) = "out" /\ prevDelay[r] = pollInterval
       /\ urlStatus[urls[r]] = ErrStatus

\* C8 as stated: a snapshot that follows another with no update between them
\* is the same output.
C8_IdenticalOutput ==
  [][LogStep /\ snaps > 0 => lastLog' = lastLog]_vars

\* C8, amended: it has the same lines, in an order that may differ.
C8_SameLines ==
  [][LogStep /\ snaps > 0 =>
       Len(lastLog') = Len(lastLog) /\ Lines(lastLog') = Lines(lastLog)]_vars

C8_Witness == snaps = 2 /\ Len(lastLog) = Len(urls)

\* ------------------------------------------------------------- failures
\* The steps a Resource takes, whatever its polls return.
Cycle(from, to) ==
  \/ to = from
  \/ from \in {"seed", "send"} /\ to = "poll"
  \/ from = "poll" /\ to = "status"
  \/ from = "status" /\ to = "out"
  \/ from = "out" /\ to = "sleep"
  \/ from = "sleep" /\ to = "send"

\* C9: a failed poll is reported and forwarded like a successful one: the
\* Poller sends the error's text as the status, the monitor receives it, the
\* Resource goes on to complete, and no Poller stops.
C9_FailureAbsorbed ==
  /\ [](/\ BagCardinality(pollers) = numPollers
        /\ \A w \in BagToSet(pollers) :
             /\ w.pc \in {"recv", "poll", "status", "out"}
             /\ w.pc \in {"status", "out"} =>
                  w.s = IF run[w.r] > 0 THEN ErrStatus ELSE OkStatus
             /\ w.pc = "out" => lastRecv[w.r] = w.s)
  /\ [][\A r \in Resources : Cycle(Loc(r), Loc(r)')]_vars

\* The Resource of a failed poll sleeps, its error text in the map, while
\* both Pollers work on.
C9_Witness ==
  /\ \E d \in BagToSet(delays) :
       run[d.r] > 0 /\ urlStatus[urls[d.r]] = ErrStatus /\ d.pc = "send"
  /\ ~BagIn(Idle, pollers)

\* ------------------------------------------------------------- liveness
Polling(r) == \E w \in BagToSet(pollers) : w.r = r /\ w.pc = "poll"

\* C10: under fair scheduling every Resource is polled again and again.
C10_PerpetualPolling == \A r \in Resources : []<>Polling(r)

\* A Resource that has failed as often as the bound allows is polled again.
C10_Witness ==
  \E r \in Resources : Polling(r) /\ errCount[r] = MaxErr

\* -------------------------------------------------------------- startup
\* The seeding goroutine has urls left to send.
Seeding == seedIdx <= Len(urls)

\* C11: while the seeding goroutine is blocked in its send (no Poller is
\* idle), a goroutine holding a Resource can run, main's receive from
\* complete included; under fair scheduling the seeding goroutine sends
\* every url, and every Resource is polled.
C11_SeedingCompletes ==
  /\ [](Seeding /\ ~BagIn(Idle, pollers) =>
         \E r \in Resources : ENABLED (RunOf(r) /\ Unobserved))
  /\ <>(~Seeding)
  /\ \A r \in Resources : <>Polling(r)

\* main has started a Sleep for one Resource and is offered another on
\* complete while the seeding goroutine still holds the last url.
C11_Witness ==
  /\ seedIdx = Len(urls)
  /\ delays # EmptyBag
  /\ \E w \in BagToSet(pollers) : w.pc = "out"

\* --------------------------------------------------------------- sleeps
\* Resource r is in its sleep: time.Sleep has not returned.
Sleeping(r) == \E d \in BagToSet(delays) : d.r = r /\ d.pc = "sleep" /\ d.elapsed < d.dur

\* C12: main is ready to receive from complete whatever Sleep goroutines
\* are live, and its receive starts one more Sleep goroutine and leaves the
\* others as they are; a Sleep goroutine whose time has passed can wake and,
\* if a Poller is idle, send its Resource, whatever the other Sleep
\* goroutines do.
C12_DelaysInParallel ==
  /\ [](/\ \A w \in BagToSet(pollers) : w.pc = "out" => ENABLED CompleteCore(w)
        /\ \A d \in BagToSet(delays) :
             /\ d.pc = "sleep" /\ d.elapsed >= d.dur => ENABLED WakeCore(d)
             /\ d.pc = "send" /\ BagIn(Idle, pollers) => ENABLED RequeueCore(d))
  /\ [][\A r \in Resources :
          CompletionHandOff(r) => delays' = delays (+) SetToBag({NewSleep(r)})]_vars

\* While one Resource is still in its 70 s sleep, another has been through
\* its own sleep and is polled again, and a third is offered to main.
C12_Witness ==
  \E x, y, z \in Resources :
    /\ Sleeping(x) /\ DelayOf(x).dur > pollInterval
    /\ Loc(y) = "poll" /\ prevDelay[y] = pollInterval
    /\ Loc(z) = "out"

\* ----------------------------------------------------------- sequencing
\* The status of the last poll of Resource r.
LatestStatus(r) == IF run[r] > 0 THEN ErrStatus ELSE OkStatus

\* C13: a Resource goes poll, State to the monitor, complete, sleep,
\* pending, in that order, and is received for its next poll only from a
\* Sleep goroutine's send; the State of a poll has been received by the
\* monitor when the Resource is sent on complete, so that at every poll the
\* States of all earlier polls of the Resource have been received, and the
\* monitor's last State of a url is that of the Resource's latest poll.
C13_Sequencing ==
  /\ [](\A r \in Resources :
          /\ unreported[r] = IF Loc(r) = "status" THEN 1 ELSE 0
          /\ Loc(r) \in {"out", "sleep", "send"} => lastRecv[r] = LatestStatus(r))
  /\ [][\A r \in Resources :
          /\ Cycle(Loc(r), Loc(r)')
          /\ Loc(r)' = "poll" /\ Loc(r) # "poll" =>
               /\ unreported[r] = 0
               /\ polled[r] => Loc(r) = "send" /\ lastRecv[r] = LatestStatus(r)]_vars

\* A Resource in its second cycle has been polled and is about to report,
\* while another sleeps after a failed poll whose State the monitor has.
C13_Witness ==
  \E r, q \in Resources :
    /\ Loc(r) = "sleep" /\ DelayOf(r).dur > pollInterval /\ lastRecv[r] = ErrStatus
    /\ Loc(q) = "status" /\ prevDelay[q] > 0 /\ lastRecv[q] # NoStatus

\* C14: a Resource has at most one live Sleep goroutine, and then no other
\* holder, so there are never more Sleep goroutines than urls; a Sleep
\* goroutine starts only when main receives its Resource from complete and
\* ends only when a Poller receives the Resource from it.
C14_OneSleepPerResource ==
  /\ [](/\ BagCardinality(delays) <= Len(urls)
        /\ \A r \in Resources :
             /\ Holding(delays, r) <= 1
             /\ Holding(delays, r) = 1 => SeedHolds(r) = 0 /\ Holding(pollers, r) = 0)
  /\ [][\A r \in Resources :
          /\ Holding(delays, r)' > Holding(delays, r) => CompletionHandOff(r)
          /\ Holding(delays, r)' < Holding(delays, r) => IntakeHandOff(r)]_vars

\* Every Resource has a live Sleep goroutine: one has slept and is blocked
\* in its send, one has just been started.
C14_Witness ==
  /\ BagCardinality(delays) = Len(urls)
  /\ \E d \in BagToSet(delays) : d.pc = "send"
  /\ \E d \in BagToSet(delays) : d.pc = "sleep" /\ d.elapsed = 0

\* -------------------------------------------------------------- reports
\* The monitor receives a State for the url of Resource r in this step.
Received(r) == unforwarded'[r] # unforwarded[r] /\ unreported'[r] # unreported[r]

\* C15: the monitor has received as many States for a url as its Resource
\* has been sent on complete, and one more exactly while the Poller is
\* between its two sends; a State is received only from the Poller that
\* holds the Resource, once for the poll it has just made, and carries the
\* Resource's url and that poll's status.
C15_OneStatePerPoll ==
  /\ [](\A r \in Resources :
          /\ unforwarded[r] = IF Loc(r) = "out" THEN 1 ELSE 0
          /\ unreported[r] + unforwarded[r] = IF Loc(r) \in {"status", "out"} THEN 1 ELSE 0)
  /\ [][\A r \in Resources :
          Received(r) =>
            /\ Loc(r) = "status" /\ Loc(r)' = "out"
            /\ probes[r] = 1
            /\ \A q \in Resources \ {r} : ~Received(q)
            /\ urlStatus'[urls[r]] = LatestStatus(r)
            /\ lastRecv'[r] = LatestStatus(r)]_vars

\* The State of the second poll of a Resource has been received and the
\* Poller is about to send the Resource on complete, while another Poller
\* is about to send the State of a failed poll.
C15_Witness ==
  \E r, q \in Resources :
    /\ Loc(r) = "out" /\ unforwarded[r] = 1 /\ prevDelay[r] > 0
    /\ Loc(q) = "status" /\ unreported[q] = 1 /\ run[q] > 0

\* C16: urlStatus changes only in a step in which the monitor receives a
\* State, and then only at that State's url; logState leaves it unchanged,
\* and so does every step of a Poller, of main, of the seeding goroutine and
\* of a Sleep goroutine.
C16_MapOwnedByMonitor ==
  [][/\ urlStatus' # urlStatus => \E r \in Resources : Received(r)
     /\ LogStep => urlStatus' = urlStatus
     /\ \A r \in Resources :
          /\ Received(r) =>
               /\ DOMAIN urlStatus' = DOMAIN urlStatus \cup {urls[r]}
               /\ \A u \in DOMAIN urlStatus \ {urls[r]} : urlStatus'[u] = urlStatus[u]
          /\ Loc(r)' # Loc(r) /\ ~Received(r) => urlStatus' = urlStatus]_vars

\* The map has an entry for every url; a Poller has polled a Resource with
\* a failure it has not reported yet, and the map still has the status of
\* the poll before.
C16_Witness ==
  /\ DOMAIN urlStatus = {urls[i] : i \in Resources}
  /\ \E r \in Resources :
       Loc(r) = "status" /\ run[r] > 0 /\ urlStatus[urls[r]] = OkStatus
  /\ \E q \in Resources : urlStatus[urls[q]] = ErrStatus

\* ----------------------------------------------------------- the monitor
\* A Poller holding Resource r at step pc.
PollerAt(r, pc) == {w \in BagToSet(pollers) : w.r = r /\ w.pc = pc}

\* The State of the last poll of r has been received and is in the map.
Applied(r) ==
  \E w \in PollerAt(r, "out") :
    urls[r] \in DOMAIN urlStatus /\ urlStatus[urls[r]] = w.s

\* C17: when the monitor's select is fair, a State a Poller offers on status
\* is received and written to the map, and a tick buffered in ticker.C is
\* taken by the monitor, which then calls logState.
C17_MonitorResponsive ==
  /\ \A r \in Resources : (PollerAt(r, "status") # {}) ~> Applied(r)
  /\ (tickerC > 0) ~> (tickerC = 0)

\* Both Pollers offer a State, one of which differs from the map's entry,
\* while a tick is buffered.
C17_Witness ==
  /\ tickerC > 0
  /\ \A w \in BagToSet(pollers) : w.pc = "status"
  /\ \E w \in BagToSet(pollers) :
       urls[w.r] \in DOMAIN urlStatus /\ urlStatus[urls[w.r]] # w.s

\* -------------------------------------------------------------- pending
\* Resource r is with a goroutine that is at its send on pending.
Offered(r) == Loc(r) \in {"seed", "send"}

\* Every Poller is busy.
AllBusy == ~BagIn(Idle, pollers)

\* C18: pending holds no Resource: every Resource is with a goroutine; a
\* Resource leaves the goroutine that sends it on pending only in the step
\* in which an idle Poller receives it; and while every Poller is busy no
\* send on pending can complete, and the senders keep their Resources.
C18_PendingRendezvous ==
  /\ [](/\ \A r \in Resources : Loc(r) # "lost" /\ Holders(r) = 1
        /\ AllBusy =>
             /\ ~ENABLED SeedSendCore
             /\ \A d \in BagToSet(delays) : ~ENABLED RequeueCore(d))
  /\ [][\A r \in Resources :
          Offered(r) =>
            /\ Loc(r)' # Loc(r) => ~AllBusy /\ IntakeHandOff(r)
            /\ AllBusy => Loc(r)' = Loc(r) /\ Holders(r)' = 1]_vars

\* Both Pollers are busy and a Sleep goroutine whose sleep is over is
\* blocked in its send.
C18_Witness ==
  /\ AllBusy
  /\ ~Seeding
  /\ \E d \in BagToSet(delays) : d.pc = "send" /\ d.elapsed >= d.dur

\* ------------------------------------------------------------- deadlock
\* A goroutine that holds a Resource can take a step: the seeding goroutine
\* or a Sleep goroutine completes its send, a Poller polls or completes one
\* of its sends (the monitor and main receiving), a timer that has run out
\* fires.
CanStep ==
  \/ ENABLED SeedSendCore
  \/ \E r \in Resources : ENABLED RunOf(r)
  \/ \E r \in Resources : ENABLED RequeueOf(r)

\* C19: in every state a goroutine holding a Resource can take a step or
\* is in time.Sleep, which ends by itself: the goroutines are never all
\* blocked on channels, whatever the polls return.
C19_NoDeadlock == CanStep \/ \E r \in Resources : Sleeping(r)

\* Every Resource is with a Sleep goroutine blocked in its send and no tick
\* is buffered: the only step is a Poller's receive.
C19_Witness ==
  /\ BagCardinality(delays) = Len(urls)
  /\ \A d \in BagToSet(delays) : d.pc = "send"
  /\ \E d \in BagToSet(delays) : d.dur > pollInterval
  /\ tickerC = 0

\* ----------------------------------------------------------------- pool
\* The Resources that Pollers hold.
InPollers == {r \in Resources : Holding(pollers, r) > 0}

\* C20: there are numPollers Pollers, each idle or holding one Resource, so
\* at most numPollers Resources are with Pollers; every other Resource is
\* with the seeding goroutine or with a Sleep goroutine.
C20_BoundedPolling ==
  /\ BagCardinality(pollers) = numPollers
  /\ \A w \in BagToSet(pollers) :
       IF w.pc = "recv" THEN w.r = NoRes ELSE w.r \in Resources
  /\ Cardinality(InPollers) = numPollers - CopiesIn(Idle, pollers)
  /\ Cardinality(InPollers) <= numPollers
  /\ \A r \in Resources \ InPollers : SeedHolds(r) + Holding(delays, r) = 1

\* One Poller polls, the other is blocked in its send on complete, and the
\* third Resource sleeps after a failed poll.
C20_Witness ==
  \E a, b, c \in Resources :
    /\ Loc(a) = "poll" /\ Loc(b) = "out"
    /\ Sleeping(c) /\ errCount[c] > 0

====
